---------------------------- MODULE Spec2Model ----------------------------
(***************************************************************************)
(* A model of the SCPI serial layer of ax6003Py: the line encoder          *)
(* (prepare_line_to_send), the token parser (parse_line) and the command   *)
(* transactor of class Scpy (write_line, command), in src/scpy.py.         *)
(*                                                                         *)
(* Bytes are one-character strings and a byte string is a sequence of      *)
(* them, so b"5\n" is <<"5", "\n">>.  Python values are tagged records.    *)
(***************************************************************************)
EXTENDS Integers, Sequences, FiniteSets, TLC

VARIABLES
    workload,             \* the calls made and the lines the instrument answers with
    timeout,              \* Scpy.timeout, in tenths of a second
    echo_of_the_command,  \* Scpy.echo_of_the_command
    out_waiting,          \* bytes queued locally for output (Serial.out_waiting)
    in_buffer,            \* lines that arrived and were not read yet
    instrument,           \* lines the instrument has still to send
    pc,                   \* position of the running call
    call,                 \* the running call: its operation, args and timeout
    tmp_timeout,          \* local of command(): unset, or the saved timeout as IntV
    response,             \* local of command()
    result,               \* what the call returned
    fault,                \* the exception the call ended with
    pre_timeout,          \* history: timeout when the call began
    wire,                 \* history: lines written to the transport by the call
    delivered,            \* history: lines that arrived since the call's write
    reads,                \* history: what each readline() of the call returned
    discarded,            \* history: how many lines the call's read_all() threw away
    facade,               \* the running Ax6003Py method: its arguments, step and outcome
    poly_dict,            \* Calibrations.poly_dict
    input,                \* argument of the pure function under check
    output                \* its result

vars == <<workload, timeout, echo_of_the_command, out_waiting, in_buffer, instrument, pc,
          call, tmp_timeout, response, result, fault, pre_timeout, wire,
          delivered, reads, discarded, facade, poly_dict, input, output>>

sessionVars == <<workload, timeout, echo_of_the_command, out_waiting, in_buffer, instrument,
                 pc, call, tmp_timeout, response, result, fault, pre_timeout,
                 wire, delivered, reads, discarded, facade>>

-----------------------------------------------------------------------------
(* Bytes and Python values *)

Digits == {"0", "1", "2", "3", "4", "5", "6", "7", "8", "9"}

\* What str.strip() removes (of the bytes the model uses).
Whitespace == {" ", "\n", "\r", "\t"}

\* The character class of the split pattern.
Delimiters == {",", " ", ";", "#", "!", "?", ":"}

\* The characters the sanitising substitution keeps.
Kept == Digits \cup {",", "."}

None == [t |-> "None"]
IntV(n) == [t |-> "int", i |-> n]
StrV(s) == [t |-> "str", s |-> s]
ListV(l) == [t |-> "list", l |-> l]
BytesV(b) == [t |-> "bytes", b |-> b]

RECURSIVE Pow10(_)
Pow10(k) == IF k = 0 THEN 1 ELSE 10 * Pow10(k - 1)

\* A float is mantissa / 10^e, kept in lowest terms so that equal floats are
\* equal records (5.0 and 5.00 are the same value).
RECURSIVE FloatV(_, _)
FloatV(m, e) ==
    IF e > 0 /\ m % 10 = 0 THEN FloatV(m \div 10, e - 1)
    ELSE [t |-> "float", m |-> m, e |-> e]

DigitVal(c) ==
    CASE c = "0" -> 0 [] c = "1" -> 1 [] c = "2" -> 2 [] c = "3" -> 3
      [] c = "4" -> 4 [] c = "5" -> 5 [] c = "6" -> 6 [] c = "7" -> 7
      [] c = "8" -> 8 [] c = "9" -> 9

DigitChar(d) ==
    CASE d = 0 -> "0" [] d = 1 -> "1" [] d = 2 -> "2" [] d = 3 -> "3"
      [] d = 4 -> "4" [] d = 5 -> "5" [] d = 6 -> "6" [] d = 7 -> "7"
      [] d = 8 -> "8" [] d = 9 -> "9"

RECURSIVE DecimalValue(_)
DecimalValue(s) ==
    IF s = <<>> THEN 0
    ELSE 10 * DecimalValue(SubSeq(s, 1, Len(s) - 1)) + DigitVal(s[Len(s)])

RECURSIVE DecimalText(_)
DecimalText(n) ==
    IF n < 10 THEN <<DigitChar(n)>>
    ELSE Append(DecimalText(n \div 10), DigitChar(n % 10))

RECURSIVE ZeroPad(_, _)
ZeroPad(s, width) == IF Len(s) >= width THEN s ELSE ZeroPad(<<"0">> \o s, width)

Count(s, c) == Cardinality({i \in 1..Len(s) : s[i] = c})

\* bytes.__contains__: needle occurs in hay as a contiguous run.
Contains(hay, needle) ==
    \E i \in 0..(Len(hay) - Len(needle)) :
        SubSeq(hay, i + 1, i + Len(needle)) = needle

-----------------------------------------------------------------------------
(* prepare_line_to_send *)

\* str(word): the decimal text of an int, the repr of a float (positional
\* notation, which Python uses for 1e-4 <= |x| < 1e16), a str as it is.
str(word) ==
    CASE word.t = "int" ->
            (IF word.i < 0 THEN <<"-">> ELSE <<>>)
                \o DecimalText(IF word.i < 0 THEN -word.i ELSE word.i)
      [] word.t = "float" ->
            LET a == IF word.m < 0 THEN -word.m ELSE word.m
            IN  (IF word.m < 0 THEN <<"-">> ELSE <<>>)
                    \o DecimalText(a \div Pow10(word.e)) \o <<".">>
                    \o (IF word.e = 0 THEN <<"0">>
                        ELSE ZeroPad(DecimalText(a % Pow10(word.e)), word.e))
      [] word.t = "str" -> word.s

\* Lines 29-30: int, float and str are rendered and encoded, anything else
\* (bytes) is taken as it is.
encode_word(word) ==
    IF word.t \in {"int", "float", "str"} THEN str(word) ELSE word.b

\* A slip the encoder could make: the carriage return is left in place.
strip_cr_keeps(word) == word

\* Lines 32-33: one trailing carriage return is removed.  word[-1] of an
\* empty byte string raises IndexError, which the caller below reports.
strip_cr(word) ==
    IF word[Len(word)] = "\r" THEN SubSeq(word, 1, Len(word) - 1) ELSE word

\* A slip the encoder could make: a comma after every word.
separator_always_comma(index) == <<",">>

\* Line 36: the separator appended after the word at `index` (0-based).
separator(index) == IF index # 0 THEN <<",">> ELSE <<" ">>

\* Lines 28-36: output_buffer after the words args[1..n] were processed.
RECURSIVE output_buffer(_, _)
output_buffer(args, n) ==
    IF n = 0 THEN <<>>
    ELSE output_buffer(args, n - 1)
            \o <<strip_cr(encode_word(args[n])), separator(n - 1)>>

RECURSIVE join(_)
join(chunks) == IF chunks = <<>> THEN <<>> ELSE Head(chunks) \o join(Tail(chunks))

Raised(exc) == [ok |-> FALSE, exc |-> exc]
Returned(v) == [ok |-> TRUE, v |-> v]

\* Lines 38-41: the last separator is popped, the newline appended, the
\* chunks joined.
joined_line(buf) == join(SubSeq(buf, 1, Len(buf) - 1) \o << <<"\n">> >>)

\* A slip the encoder could make: the pop guarded by `if output_buffer`, so
\* that no arguments give a bare newline instead of an IndexError.
prepare_line_to_send_guarded_pop(args) ==
    IF \E k \in 1..Len(args) : encode_word(args[k]) = <<>> THEN Raised("IndexError")
    ELSE Returned(joined_line(output_buffer(args, Len(args))))

\* Lines 27-41.  IndexError is raised by word[-1] on an empty word (line 32)
\* and by pop(-1) on an empty buffer (line 38).
prepare_line_to_send(args) ==
    IF \E k \in 1..Len(args) : encode_word(args[k]) = <<>> THEN Raised("IndexError")
    ELSE IF Len(args) = 0 THEN Raised("IndexError")
    ELSE Returned(joined_line(output_buffer(args, Len(args))))

-----------------------------------------------------------------------------
(* parse_line *)

\* str.strip(): leading and trailing whitespace removed.
RECURSIVE lstrip(_)
lstrip(s) == IF s # <<>> /\ Head(s) \in Whitespace THEN lstrip(Tail(s)) ELSE s

RECURSIVE rstrip(_)
rstrip(s) ==
    IF s # <<>> /\ s[Len(s)] \in Whitespace THEN rstrip(SubSeq(s, 1, Len(s) - 1))
    ELSE s

strip(s) == rstrip(lstrip(s))

\* re.split(r"[, ;#!?:]+", line) from position i on, `cur` being the text
\* gathered since the last split point.  A maximal run of delimiters is one
\* split point; the text before the first and after the last split point is
\* a token even when it is empty.
RECURSIVE split_from(_, _, _)
split_from(s, i, cur) ==
    IF i > Len(s) THEN <<cur>>
    ELSE IF s[i] \in Delimiters
         THEN IF i > 1 /\ s[i - 1] \in Delimiters
              THEN split_from(s, i + 1, cur)
              ELSE <<cur>> \o split_from(s, i + 1, <<>>)
         ELSE split_from(s, i + 1, Append(cur, s[i]))

re_split(line) == split_from(line, 1, <<>>)

IsKept(c) == c \in Kept

\* A slip the parser could make: the token classified without sanitising.
re_sub_keeps_all(token) == token

\* re.sub('[^0-9,.]', '', token)
re_sub(token) == SelectSeq(token, IsKept)

\* int(cleaned) succeeds: of the texts re_sub can return, the non-empty
\* runs of digits.
int_parses(cleaned) ==
    cleaned # <<>> /\ \A k \in 1..Len(cleaned) : cleaned[k] \in Digits

\* float(cleaned) succeeds: digits with at most one period, and a digit.
float_parses(cleaned) ==
    /\ \A k \in 1..Len(cleaned) : cleaned[k] \in Digits \cup {"."}
    /\ Count(cleaned, ".") <= 1
    /\ \E k \in 1..Len(cleaned) : cleaned[k] \in Digits

IsDigit(c) == c \in Digits

float_value(cleaned) ==
    LET dot == IF Count(cleaned, ".") = 0 THEN Len(cleaned) + 1
               ELSE CHOOSE k \in 1..Len(cleaned) : cleaned[k] = "."
    IN  FloatV(DecimalValue(SelectSeq(cleaned, IsDigit)),
               IF dot > Len(cleaned) THEN 0 ELSE Len(cleaned) - dot)

\* A slip the parser could make: the sanitised remnant kept as the text.
token_value_keeps_cleaned(token) ==
    LET cleaned == re_sub(token)
    IN  IF int_parses(cleaned) THEN IntV(DecimalValue(cleaned))
        ELSE IF float_parses(cleaned) THEN float_value(cleaned)
        ELSE StrV(cleaned)

\* Lines 63-74: the value appended to output_val for one token.
token_value(token) ==
    LET cleaned == re_sub(token)
    IN  IF int_parses(cleaned) THEN IntV(DecimalValue(cleaned))
        ELSE IF float_parses(cleaned) THEN float_value(cleaned)
        ELSE StrV(token)

\* Line 60: the token list.
tokens_of(line) == re_split(strip(line))

\* Lines 76-80.
collapse(output_val) ==
    IF Len(output_val) = 1 THEN output_val[1]
    ELSE IF output_val = <<>> THEN None
    ELSE ListV(output_val)

\* Lines 59-80.
parse_line(line) ==
    LET tokens == tokens_of(line)
    IN  collapse([k \in 1..Len(tokens) |-> token_value(tokens[k])])

-----------------------------------------------------------------------------
(* Scpy: the session and one call at a time *)

\* Scpy.__init__ sets timeout = 1 (second); command() defaults to 2.5.
DefaultTimeout == 10
CommandTimeout == 25

\* The longest run of lines the instrument may still owe or have delivered.
MaxTranscript == 3

B_APPL == <<"A", "P", "P", "L">>
B_IDN == <<"*", "I", "D", "N", "?">>
B_1_2 == <<"1", ".", "2">>
L_5_0_1_2 == <<"5", ".", "0", ",", "1", ".", "2", "\n">>
L_MODEL123 == <<"M", "O", "D", "E", "L", "1", "2", "3", "\n">>
L_BLANK == <<"\n">>

\* A workload: the argument tuples the calls are made with, and what the
\* instrument may answer with besides echoing the line it received.
Workloads ==
    { [args |-> { <<>>,
                  <<StrV(B_APPL), FloatV(50, 1), FloatV(12, 1)>>,
                  <<StrV(B_1_2)>> },
       replies |-> {L_5_0_1_2, L_BLANK}],
      [args |-> { <<StrV(B_IDN)>> },
       replies |-> {L_MODEL123, L_BLANK}] }

\* The timeout= arguments of command().
CallTimeouts == {CommandTimeout}

RECURSIVE SeqsUpTo(_, _)
SeqsUpTo(S, n) ==
    IF n <= 0 THEN {<<>>}
    ELSE LET shorter == SeqsUpTo(S, n - 1)
         IN  shorter \cup {Append(q, x) : q \in {r \in shorter : Len(r) = n - 1}, x \in S}

NoCall == [op |-> "none"]
NoMethod == [method |-> "none", step |-> "idle"]
NoResult == [t |-> "unset"]
Unset == [t |-> "unset"]

\* readline() on an empty receive buffer returns b"" when the timeout elapses.
EmptyBytes == <<>>

InitSession ==
    /\ timeout = DefaultTimeout
    /\ echo_of_the_command = Unset
    /\ out_waiting = 0
    /\ in_buffer = <<>>
    /\ instrument = <<>>
    /\ pc = "idle"
    /\ call = NoCall
    /\ tmp_timeout = Unset
    /\ response = <<>>
    /\ result = NoResult
    /\ fault = "none"
    /\ pre_timeout = DefaultTimeout
    /\ wire = <<>>
    /\ delivered = <<>>
    /\ reads = <<>>
    /\ discarded = 0
    /\ facade = NoMethod

Init ==
    /\ workload \in Workloads
    /\ InitSession
    /\ poly_dict = Unset
    /\ input = Unset
    /\ output = Unset

\* A call begins, the previous one having returned or raised: the histories
\* of the previous call are forgotten.
Begin(op, args, t) ==
    /\ call' = [op |-> op, args |-> args, timeout |-> t]
    /\ pre_timeout' = timeout
    /\ wire' = <<>>
    /\ delivered' = <<>>
    /\ reads' = <<>>
    /\ discarded' = 0
    /\ response' = <<>>
    /\ result' = NoResult
    /\ fault' = "none"

\* The call ends with an exception: nothing after the raising line runs.
Raise(exc) ==
    /\ fault' = exc
    /\ pc' = "fault"

\* Lines 154-155.
command(args, t) ==
    /\ pc \in {"idle", "done", "fault"}
    /\ Begin("command", args, t)
    /\ tmp_timeout' = IntV(timeout)
    /\ timeout' = t
    /\ pc' = "flush"
    /\ UNCHANGED <<echo_of_the_command, out_waiting, in_buffer, instrument>>

\* Line 156: flush() returns once the queued output is sent, or raises.
command_flush ==
    /\ pc = "flush"
    /\ \/ /\ out_waiting' = 0
          /\ pc' = "read_all"
          /\ UNCHANGED fault
       \/ /\ Raise("SerialException")
          /\ UNCHANGED out_waiting
    /\ UNCHANGED <<timeout, echo_of_the_command, in_buffer, instrument, call,
                   tmp_timeout, response, result, pre_timeout, wire, delivered, reads,
                   discarded>>

\* A slip the drain could make: the stale lines stay where they are.
read_all_keeps(buffer) == buffer

\* Line 160: read_all() takes everything in the receive buffer, which is left
\* empty; command() throws away what it took.
read_all(buffer) == <<>>

\* Lines 157-160: the spin on out_waiting, the settle delay, and read_all(),
\* which empties the receive buffer or raises.
command_read_all ==
    /\ pc = "read_all"
    /\ out_waiting = 0
    /\ \/ /\ in_buffer' = read_all(in_buffer)
          /\ discarded' = Len(in_buffer)
          /\ delivered' = <<>>
          /\ pc' = "write_line"
          /\ UNCHANGED fault
       \/ /\ Raise("SerialException")
          /\ UNCHANGED <<in_buffer, delivered, discarded>>
    /\ UNCHANGED <<timeout, echo_of_the_command, out_waiting, instrument, call,
                   tmp_timeout, response, result, pre_timeout, wire, reads>>

\* What the instrument queues in answer to a line: any run of echoes of the
\* line and of reply lines that keeps within MaxTranscript.
Reactions(line) ==
    SeqsUpTo({line} \cup workload.replies, MaxTranscript - Len(instrument) - Len(in_buffer))

\* A slip the transactor could make: the line is written a second time.
write_twice(sent, data) == Append(Append(sent, data), data)

\* Line 113: write() hands the data to the transport, once.
write(sent, data) == Append(sent, data)

\* Lines 109-114, the body of write_line(): `next` is where the caller goes on.
\* The encoder raises before anything is queued; write() and flush() may raise.
write_line_body(args, next) ==
    LET encoded == prepare_line_to_send(args)
    IN  IF ~encoded.ok
        THEN /\ Raise(encoded.exc)
             /\ UNCHANGED <<echo_of_the_command, out_waiting, instrument, wire, result>>
        ELSE /\ out_waiting = 0
             /\ echo_of_the_command' = BytesV(encoded.v)
             /\ \/ /\ Raise("SerialException")
                   /\ UNCHANGED <<out_waiting, instrument, wire, result>>
                \/ /\ wire' = write(wire, encoded.v)
                   /\ \E reaction \in Reactions(encoded.v) :
                        instrument' = instrument \o reaction
                   /\ \/ /\ out_waiting' = 0
                         /\ pc' = next
                         /\ result' = IF next = "done" THEN None ELSE result
                         /\ UNCHANGED fault
                      \/ /\ out_waiting' = 1
                         /\ Raise("SerialException")
                         /\ UNCHANGED result

\* write_line(*args) called on its own.
write_line(args) ==
    /\ pc \in {"idle", "done", "fault"}
    /\ Begin("write_line", args, timeout)
    /\ pc' = "write_line"
    /\ UNCHANGED <<timeout, echo_of_the_command, out_waiting, in_buffer,
                   instrument, tmp_timeout>>

write_line_run ==
    /\ pc = "write_line"
    /\ call.op = "write_line"
    /\ write_line_body(call.args, "done")
    /\ UNCHANGED <<timeout, in_buffer, call, tmp_timeout, response, pre_timeout,
                   delivered, reads, discarded>>

\* Line 161.
command_write_line ==
    /\ pc = "write_line"
    /\ call.op = "command"
    /\ write_line_body(call.args, "readline")
    /\ UNCHANGED <<timeout, in_buffer, call, tmp_timeout, response, pre_timeout,
                   delivered, reads, discarded>>

\* A slip the loop could make: no line is taken for the echo.
is_echo_never(echo, line) == FALSE

\* Line 167: the echo marker occurs in the line read.
is_echo(echo, line) == Contains(line, echo)

\* A slip the loop could make: the empty text is kept like any other value.
accept_keeps_empty(resp, parsed) == [response |-> Append(resp, parsed), brk |-> FALSE]

\* Lines 170-173: the parsed value is appended; an empty text in the
\* accumulator is removed and ends the loop.
accept(resp, parsed) ==
    LET appended == Append(resp, parsed)
        IsEmptyText(v) == v = StrV(<<>>)
    IN  IF \E k \in 1..Len(appended) : IsEmptyText(appended[k])
        THEN LET first == CHOOSE k \in 1..Len(appended) :
                            /\ IsEmptyText(appended[k])
                            /\ \A j \in 1..(k - 1) : ~IsEmptyText(appended[j])
             IN  [response |-> SubSeq(appended, 1, first - 1)
                                 \o SubSeq(appended, first + 1, Len(appended)),
                  brk |-> TRUE]
        ELSE [response |-> appended, brk |-> FALSE]

\* The history of reads keeps the first MaxTranscript + 1 of them: every read
\* of a call whose instrument sends no more than MaxTranscript lines.
remember(history, line) ==
    IF Len(history) <= MaxTranscript THEN Append(history, line) ELSE history

\* A slip the loop could make: it reads on after a value was accepted.
loop_stops_never(resp) == FALSE

\* Lines 164-165: the loop ends once the accumulator holds a value.
loop_stops(resp) == resp # <<>>

\* Lines 163-173, one turn of the loop.  readline() returns the next line that
\* arrived, b"" when the timeout elapses on an empty buffer, or raises.
command_readline ==
    /\ pc = "readline"
    /\ IF loop_stops(response)
       THEN /\ pc' = "finish"
            /\ UNCHANGED <<in_buffer, reads, response, fault>>
       ELSE \/ /\ Raise("SerialException")
               /\ UNCHANGED <<in_buffer, reads, response>>
            \/ LET line == IF in_buffer = <<>> THEN EmptyBytes ELSE Head(in_buffer)
               IN  /\ in_buffer' = IF in_buffer = <<>> THEN <<>> ELSE Tail(in_buffer)
                   /\ reads' = remember(reads, line)
                   /\ UNCHANGED fault
                   /\ IF is_echo(echo_of_the_command.b, line)
                      THEN UNCHANGED <<response, pc>>
                      ELSE LET a == accept(response, parse_line(line))
                           IN  /\ response' = a.response
                               /\ pc' = IF a.brk THEN "finish" ELSE "readline"
    /\ UNCHANGED <<timeout, echo_of_the_command, out_waiting, instrument, call,
                   tmp_timeout, result, pre_timeout, wire, delivered, discarded>>

\* A slip the return could make: an empty accumulator returned as it is.
returned_value_no_none(resp) == IF Len(resp) = 1 THEN resp[1] ELSE ListV(resp)

\* Lines 177-181.
returned_value(resp) ==
    IF Len(resp) = 1 THEN resp[1]
    ELSE IF resp = <<>> THEN None
    ELSE ListV(resp)

\* Lines 175-181.
command_finish ==
    /\ pc = "finish"
    /\ echo_of_the_command' = None
    /\ timeout' = tmp_timeout.i
    /\ result' = returned_value(response)
    /\ pc' = "done"
    /\ UNCHANGED <<out_waiting, in_buffer, instrument, call, tmp_timeout, response,
                   fault, pre_timeout, wire, delivered, reads, discarded>>

\* The instrument's next line arrives in the receive buffer.
instrument_sends ==
    /\ instrument # <<>>
    /\ in_buffer' = Append(in_buffer, Head(instrument))
    /\ instrument' = Tail(instrument)
    /\ delivered' = IF pc \in {"flush", "read_all", "write_line", "readline"}
                    THEN Append(delivered, Head(instrument))
                    ELSE delivered
    /\ UNCHANGED <<timeout, echo_of_the_command, out_waiting, pc, call, tmp_timeout,
                   response, result, fault, pre_timeout, wire, reads, discarded>>

\* The queued output leaves the port.
output_drains ==
    /\ out_waiting > 0
    /\ out_waiting' = 0
    /\ UNCHANGED <<timeout, echo_of_the_command, in_buffer, instrument, pc, call,
                   tmp_timeout, response, result, fault, pre_timeout, wire,
                   delivered, reads, discarded>>

Next ==
    \/ /\ \E args \in workload.args, t \in CallTimeouts : command(args, t)
       /\ UNCHANGED <<workload, facade, poly_dict, input, output>>
    \/ /\ \E args \in workload.args : write_line(args)
       /\ UNCHANGED <<workload, facade, poly_dict, input, output>>
    \/ /\ command_flush
       /\ UNCHANGED <<workload, facade, poly_dict, input, output>>
    \/ /\ command_read_all
       /\ UNCHANGED <<workload, facade, poly_dict, input, output>>
    \/ /\ command_write_line
       /\ UNCHANGED <<workload, facade, poly_dict, input, output>>
    \/ /\ write_line_run
       /\ UNCHANGED <<workload, facade, poly_dict, input, output>>
    \/ /\ command_readline
       /\ UNCHANGED <<workload, facade, poly_dict, input, output>>
    \/ /\ command_finish
       /\ UNCHANGED <<workload, facade, poly_dict, input, output>>
    \/ /\ instrument_sends
       /\ UNCHANGED <<workload, facade, poly_dict, input, output>>
    \/ /\ output_drains
       /\ UNCHANGED <<workload, facade, poly_dict, input, output>>

Spec == Init /\ [][Next]_vars

-----------------------------------------------------------------------------
(* command() against an instrument that may go on sending: every step of the
   running call is taken in the end (the interpreter runs the next statement,
   the queued output leaves the port, readline() returns a line or b"" within
   the timeout); the instrument is free to send or to keep silent. *)

LiveWorkload == [args |-> {<<StrV(B_IDN)>>}, replies |-> {L_MODEL123}]

InitLive ==
    /\ workload = LiveWorkload
    /\ InitSession
    /\ poly_dict = Unset
    /\ input = Unset
    /\ output = Unset

\* The instrument sends the line it received once more: the line arrives in
\* the receive buffer while the call is reading.
instrument_repeats ==
    /\ pc = "readline"
    /\ wire # <<>>
    /\ in_buffer = <<>>
    /\ instrument = <<>>
    /\ in_buffer' = <<wire[1]>>
    /\ UNCHANGED <<timeout, echo_of_the_command, out_waiting, instrument, pc, call,
                   tmp_timeout, response, result, fault, pre_timeout, wire,
                   delivered, reads, discarded>>

\* A step of the session that leaves everything outside it alone.
SessionStep(A) == A /\ UNCHANGED <<workload, facade, poly_dict, input, output>>

NextLive ==
    \/ SessionStep(\E args \in workload.args, t \in CallTimeouts : command(args, t))
    \/ SessionStep(command_flush)
    \/ SessionStep(command_read_all)
    \/ SessionStep(command_write_line)
    \/ SessionStep(command_readline)
    \/ SessionStep(command_finish)
    \/ SessionStep(instrument_sends)
    \/ SessionStep(instrument_repeats)
    \/ SessionStep(output_drains)

SpecLive ==
    /\ InitLive
    /\ [][NextLive]_vars
    /\ WF_vars(SessionStep(command_flush))
    /\ WF_vars(SessionStep(command_read_all))
    /\ WF_vars(SessionStep(command_write_line))
    /\ WF_vars(SessionStep(command_readline))
    /\ WF_vars(SessionStep(command_finish))
    /\ WF_vars(SessionStep(output_drains))

-----------------------------------------------------------------------------
(* Ax6003Py: the set/get methods, each a write_line() of the SET form when
   its arguments say so, then a command() of the QUERY form *)

\* Everything of the session but the workload and the running method.
callVars == <<timeout, echo_of_the_command, out_waiting, in_buffer, instrument, pc,
              call, tmp_timeout, response, result, fault, pre_timeout, wire,
              delivered, reads, discarded>>

B_SET_VOLT == <<":", "V", "O", "L", "T">>
B_SET_CURR == <<":", "C", "U", "R", "R">>
B_SET_APPL == <<":", "A", "P", "P", "L">>
B_APPL_Q == <<"A", "P", "P", "L", "?">>
L_ON == <<"O", "N", "\n">>
L_7 == <<"7", "\n">>
L_5_0 == <<"5", ".", "0", "\n">>

\* bool(v): None, zero and the empty text or list are false.
truthy(v) ==
    CASE v.t = "None" -> FALSE
      [] v.t = "int" -> v.i # 0
      [] v.t = "float" -> v.m # 0
      [] v.t = "str" -> v.s # <<>>
      [] v.t = "list" -> v.l # <<>>

\* v[k] for k = 0 or 1: an element of a list, a character of a text; None,
\* an int and a float are not subscriptable.
subscript(v, k) ==
    CASE v.t = "list" ->
            IF k < Len(v.l) THEN Returned(v.l[k + 1]) ELSE Raised("IndexError")
      [] v.t = "str" ->
            IF k < Len(v.s) THEN Returned(StrV(<<v.s[k + 1]>>)) ELSE Raised("IndexError")
      [] OTHER -> Raised("TypeError")

\* ax6003py.py lines 77, 94, 113: the test that guards the SET form.
sends_set(method, args) ==
    CASE method = "apply_voltage" -> args[1] # None
      [] method = "apply_current" -> args[1] # None
      [] method = "apply" -> truthy(args[1]) /\ truthy(args[2])

\* Lines 78, 95, 114: the arguments of the SET form.
set_args(method, args) ==
    CASE method = "apply_voltage" -> <<StrV(B_SET_VOLT), args[1]>>
      [] method = "apply_current" -> <<StrV(B_SET_CURR), args[1]>>
      [] method = "apply" -> <<StrV(B_SET_APPL), args[1], args[2]>>

\* Lines 79, 96, 115: the arguments of the QUERY form.
query_args(method) == <<StrV(B_APPL_Q)>>

\* Lines 79, 96, 115: what the method makes of the value command() returned.
returns(method, reply) ==
    CASE method = "apply_voltage" -> subscript(reply, 0)
      [] method = "apply_current" -> subscript(reply, 1)
      [] method = "apply" -> Returned(reply)

\* The two getters that index the reply, called without an argument.
Getters ==
    { [method |-> "apply_voltage", args |-> <<None>>],
      [method |-> "apply_current", args |-> <<None>>] }

\* The calls a session makes and the instrument's reply lines.
FacadeWorkloads ==
    { [calls |-> { [method |-> "apply_voltage", args |-> <<FloatV(50, 1)>>],
                   [method |-> "apply_voltage", args |-> <<None>>] },
       replies |-> {L_5_0_1_2}],
      [calls |-> { [method |-> "apply", args |-> <<FloatV(50, 1), FloatV(12, 1)>>],
                   [method |-> "apply", args |-> <<FloatV(0, 0), FloatV(12, 1)>>],
                   [method |-> "apply", args |-> <<None, None>>] },
       replies |-> {L_5_0_1_2}],
      [calls |-> Getters, replies |-> {L_5_0_1_2}],
      [calls |-> Getters, replies |-> {L_ON, L_BLANK}],
      [calls |-> Getters, replies |-> {L_7, L_5_0}] }

InitFacade ==
    /\ workload \in FacadeWorkloads
    /\ InitSession
    /\ poly_dict = Unset
    /\ input = Unset
    /\ output = Unset

\* The method begins, the previous one having returned or raised: it sends
\* the SET form with write_line(), or goes straight to the QUERY form.
method_call(method, args) ==
    /\ facade.step \in {"idle", "returned", "raised"}
    /\ IF sends_set(method, args)
       THEN /\ write_line(set_args(method, args))
            /\ facade' = [method |-> method, args |-> args, step |-> "set",
                          sent |-> <<>>, value |-> Unset]
       ELSE /\ command(query_args(method), CommandTimeout)
            /\ facade' = [method |-> method, args |-> args, step |-> "query",
                          sent |-> <<>>, value |-> Unset]

apply_voltage(volts) == method_call("apply_voltage", <<volts>>)

apply_current(ampers) == method_call("apply_current", <<ampers>>)

apply(volts, ampers) == method_call("apply", <<volts, ampers>>)

\* write_line() of the SET form is over: the method goes on to command() of
\* the QUERY form, or ends with the exception write_line() raised.
method_query ==
    /\ facade.step = "set"
    /\ \/ /\ pc = "done"
          /\ command(query_args(facade.method), CommandTimeout)
          /\ facade' = [facade EXCEPT !.step = "query", !.sent = wire]
       \/ /\ pc = "fault"
          /\ facade' = [facade EXCEPT !.step = "raised", !.sent = wire,
                                      !.value = Raised(fault)]
          /\ UNCHANGED callVars

\* command() of the QUERY form is over: the method returns what it makes of
\* the value, or ends with an exception (command()'s, or the indexing's).
method_return ==
    /\ facade.step = "query"
    /\ pc \in {"done", "fault"}
    /\ LET value == IF pc = "fault" THEN Raised(fault)
                    ELSE returns(facade.method, result)
       IN  facade' = [facade EXCEPT !.step = IF value.ok THEN "returned" ELSE "raised",
                                    !.sent = facade.sent \o wire,
                                    !.value = value]
    /\ UNCHANGED callVars

NextFacade ==
    \/ /\ \E c \in workload.calls :
            /\ c.method = "apply_voltage"
            /\ apply_voltage(c.args[1])
       /\ UNCHANGED <<workload, poly_dict, input, output>>
    \/ /\ \E c \in workload.calls :
            /\ c.method = "apply_current"
            /\ apply_current(c.args[1])
       /\ UNCHANGED <<workload, poly_dict, input, output>>
    \/ /\ \E c \in workload.calls :
            /\ c.method = "apply"
            /\ apply(c.args[1], c.args[2])
       /\ UNCHANGED <<workload, poly_dict, input, output>>
    \/ /\ method_query
       /\ UNCHANGED <<workload, poly_dict, input, output>>
    \/ /\ method_return
       /\ UNCHANGED <<workload, poly_dict, input, output>>
    \/ /\ command_flush
       /\ UNCHANGED <<workload, facade, poly_dict, input, output>>
    \/ /\ command_read_all
       /\ UNCHANGED <<workload, facade, poly_dict, input, output>>
    \/ /\ command_write_line
       /\ UNCHANGED <<workload, facade, poly_dict, input, output>>
    \/ /\ write_line_run
       /\ UNCHANGED <<workload, facade, poly_dict, input, output>>
    \/ /\ command_readline
       /\ UNCHANGED <<workload, facade, poly_dict, input, output>>
    \/ /\ command_finish
       /\ UNCHANGED <<workload, facade, poly_dict, input, output>>
    \/ /\ instrument_sends
       /\ UNCHANGED <<workload, facade, poly_dict, input, output>>
    \/ /\ output_drains
       /\ UNCHANGED <<workload, facade, poly_dict, input, output>>

SpecFacade == InitFacade /\ [][NextFacade]_vars

-----------------------------------------------------------------------------
(* The two pure functions on their own: the input is drawn, the function is
   applied once. *)

\* How many pieces a received line is put together from.
MaxPieces == 3

\* How many arguments the encoder is called with.
MaxArgs == 3

B_ON == <<"O", "N">>

\* Each piece holds at most two digits, so that a line's numbers stay within
\* TLC's 32-bit integers (Python's are unbounded).
ParsePieces ==
    { <<"5", ".", "0">>, <<"1", ".", "2">>, <<"7">>, <<".">>, <<"-">>, B_ON,
      <<"I", "D", "3">>,
      <<",">>, <<" ">>, <<";">>, <<"#">>, <<"!">>, <<"?">>, <<":">>,
      <<"\r">>, <<"\n">> }

ParseInputs == {join(q) : q \in SeqsUpTo(ParsePieces, MaxPieces)}

EncodeWords ==
    { StrV(B_APPL), IntV(5), IntV(-3), FloatV(50, 1), FloatV(12, 1),
      StrV(<<"O", "N", "\r">>), StrV(<<"\r">>), StrV(<<>>),
      StrV(<<"A", " ", "B">>), BytesV(B_ON) }

EncodeInputs == SeqsUpTo(EncodeWords, MaxArgs)

NoWorkload == [args |-> {}, replies |-> {}]

InitParse ==
    /\ workload = NoWorkload
    /\ InitSession
    /\ poly_dict = Unset
    /\ input \in ParseInputs
    /\ output = Unset

parse ==
    /\ output = Unset
    /\ output' = parse_line(input)
    /\ UNCHANGED <<sessionVars, poly_dict, input>>

NextParse == parse

SpecParse == InitParse /\ [][NextParse]_vars

InitEncode ==
    /\ workload = NoWorkload
    /\ InitSession
    /\ poly_dict = Unset
    /\ input \in EncodeInputs
    /\ output = Unset

encode ==
    /\ output = Unset
    /\ output' = prepare_line_to_send(input)
    /\ UNCHANGED <<sessionVars, poly_dict, input>>

NextEncode == encode

SpecEncode == InitEncode /\ [][NextEncode]_vars

-----------------------------------------------------------------------------
(* Calibrations: the table of named polynomials.  Coefficients and results
   are counted in halves, so that the default 0.5 is a whole number; x is a
   whole number, for which result * x + c is exact in halves as it is in
   Python's floats. *)

\* The largest |x| a polynomial is evaluated at.
MaxX == 3

\* The longest coefficient list.
MaxCoef == 3

XValues == (-MaxX)..MaxX

\* -0.5, 0.5 and 1.0.
CoefValues == {-1, 1, 2}

CoefLists == SeqsUpTo(CoefValues, MaxCoef)

\* Lines 12-15: {"equ": [1.0, 0.0], "hlv": [0.5, 0.0]}.
DefaultPolynoms == [equ |-> <<2, 0>>, hlv |-> <<1, 0>>]

\* The names polynom() is asked for and add_polynom() stores under.
PolynomNames == {"equ", "hlv", "cal", "abs"}
AddedNames == {"cal"}

\* What polynoms_from_file() may find in the file: add_polynom() never stores
\* an empty list, a file may hold one.
FileTables == {[cal |-> <<>>], [equ |-> <<2, 0>>, cal |-> <<>>]}

NoOperation == [op |-> "none"]

InitCalib ==
    /\ workload = NoWorkload
    /\ InitSession
    /\ poly_dict = DefaultPolynoms
    /\ input = NoOperation
    /\ output = Unset

\* A slip the loop could make: the coefficient is scaled instead of the sum.
horner_step_scales_coefficient(acc, x, c) == acc + c * x

\* Line 35: result = result * x + c (acc is the loop's `result`).
horner_step(acc, x, c) == acc * x + c

\* Lines 33-36: the loop over the coefficients, first to last.
RECURSIVE horner(_, _, _)
horner(acc, x, coef) ==
    IF coef = <<>> THEN acc
    ELSE horner(horner_step(acc, x, Head(coef)), x, Tail(coef))

\* Lines 27-36: what polynom(x, name_of_coef) returns or raises on a table.
polynom_outcome(table, x, name_of_coef) ==
    IF name_of_coef \notin DOMAIN table THEN Raised("KeyError")
    ELSE IF table[name_of_coef] = <<>> THEN Raised("ValueError")
    ELSE Returned(horner(0, x, table[name_of_coef]))

\* Lines 26-36.
polynom(x, name_of_coef) ==
    /\ input' = [op |-> "polynom", x |-> x, name |-> name_of_coef, table |-> poly_dict]
    /\ output' = polynom_outcome(poly_dict, x, name_of_coef)
    /\ UNCHANGED <<sessionVars, poly_dict>>

\* Lines 38-41.
add_polynom(coef, polynom_name) ==
    /\ input' = [op |-> "add_polynom", coef |-> coef, name |-> polynom_name]
    /\ IF coef = <<>>
       THEN /\ output' = Raised("ValueError")
            /\ UNCHANGED poly_dict
       ELSE /\ output' = Returned(None)
            /\ poly_dict' = [n \in DOMAIN poly_dict \cup {polynom_name} |->
                                IF n = polynom_name THEN coef ELSE poly_dict[n]]
    /\ UNCHANGED sessionVars

\* Lines 57-59: the table is replaced by what the file holds.
polynoms_from_file(table) ==
    /\ input' = [op |-> "polynoms_from_file"]
    /\ output' = Returned(None)
    /\ poly_dict' = table
    /\ UNCHANGED sessionVars

NextCalib ==
    \/ \E x \in XValues, name \in PolynomNames : polynom(x, name)
    \/ \E coef \in CoefLists, name \in AddedNames : add_polynom(coef, name)
    \/ \E table \in FileTables : polynoms_from_file(table)

SpecCalib == InitCalib /\ [][NextCalib]_vars

-----------------------------------------------------------------------------
(* Properties *)

\* The line the call transmitted.
Transmitted == wire[1]

\* A line that was received (not the b"" of a timed-out read) and holds
\* nothing but whitespace.
IsBlankLine(line) == line # EmptyBytes /\ strip(line) = <<>>

B_MODEL123 == <<"M", "O", "D", "E", "L", "1", "2", "3">>
L_APPL_5_0_1_2 == <<"A", "P", "P", "L", " ", "5", ".", "0", ",", "1", ".", "2", "\n">>

\* C1: after any command() call, however it ended (a value, None after a
\* timed-out read, the encoding fault, a transport fault), the session's
\* timeout equals the value it had immediately before the call.
C1_TimeoutRestoredOnEveryExit ==
    (call.op = "command" /\ pc \in {"done", "fault"}) => timeout = pre_timeout

\* The lines that arrived while the call was reading are one or more copies
\* of the transmitted line and then one other line.
EchoesThenReply ==
    /\ call.op = "command"
    /\ pc = "done"
    /\ wire # <<>>
    /\ Len(delivered) >= 2
    /\ \A k \in 1..(Len(delivered) - 1) : delivered[k] = Transmitted
    /\ delivered[Len(delivered)] # Transmitted

\* What command() returns for an accepted line: the parse of the line, None
\* for a blank one.
ValueOfReply(line) == IF strip(line) = <<>> THEN None ELSE parse_line(line)

\* C2 as stated: for every command line and every reply line, when the
\* transcript is echoes of the command followed by the reply line, command()
\* returns the parsed value of the reply line.
C2_EchoSuppressedForEveryReply ==
    EchoesThenReply => result = ValueOfReply(delivered[Len(delivered)])

\* C2 as amended: when the transcript is echoes of the command followed by a
\* reply line that does not contain the command bytes, command() returns the
\* parsed value of the reply line, never the parse of an echo line.
C2_EchoSuppressed ==
    (EchoesThenReply /\ ~Contains(delivered[Len(delivered)], Transmitted))
        => /\ result = ValueOfReply(delivered[Len(delivered)])
           /\ reads = delivered

\* ("APPL", 5.0, 1.2) echoed and answered with "5.0,1.2\n" returned [5.0, 1.2].
C2_Witness ==
    /\ EchoesThenReply
    /\ Transmitted = L_APPL_5_0_1_2
    /\ delivered = <<L_APPL_5_0_1_2, L_5_0_1_2>>
    /\ result = ListV(<<FloatV(50, 1), FloatV(12, 1)>>)

\* command("*IDN?") read the single line "MODEL123\n" and returned.
IdnExchange ==
    /\ call.op = "command"
    /\ call.args = <<StrV(B_IDN)>>
    /\ pc = "done"
    /\ reads = <<L_MODEL123>>

\* C3 as stated: ("*IDN?",) answered without echo by the single line
\* "MODEL123\n" returns the text "MODEL123".
C3_IdnReturnsText == IdnExchange => result = StrV(B_MODEL123)

\* C3 as amended: ("*IDN?",) answered without echo by the single line
\* "MODEL123\n" returns the integer 123, the digits left of the reply by the
\* sanitising step.
C3_IdnReturnsDigits == IdnExchange => result = IntV(123)

C3_Witness == IdnExchange /\ fault = "none" /\ wire = <<Append(B_IDN, "\n")>>

\* An int, real or text argument whose text holds no space, comma or newline.
PlainWord(word) ==
    /\ word.t \in {"int", "float", "str"}
    /\ \A k \in 1..Len(str(word)) : str(word)[k] \notin {" ", ",", "\n"}

\* The encoder ran on a non-empty sequence of such arguments.
EncodedPlainWords ==
    /\ output # Unset
    /\ Len(input) >= 1
    /\ \A k \in 1..Len(input) : PlainWord(input[k])

\* The line ends in exactly one newline and no separator stands before it.
WellTerminated(line) ==
    /\ line # <<>>
    /\ line[Len(line)] = "\n"
    /\ Count(line, "\n") = 1
    /\ Len(line) >= 2 => line[Len(line) - 1] \notin {" ", ","}

\* No argument's text is empty or a lone carriage return: every chunk of the
\* line holds a byte.
NoEmptyChunk == \A k \in 1..Len(input) : str(input[k]) \notin {<<>>, <<"\r">>}

\* C4 as stated (here on arguments that each give a non-empty chunk): for n
\* int/real/text arguments (no space, comma or newline in a text) the line
\* ends in exactly one newline, has no trailing separator, and holds exactly
\* n-1 commas and exactly one space.
C4_SeparatorCountsAsStated ==
    (EncodedPlainWords /\ NoEmptyChunk)
        => /\ output.ok
           /\ WellTerminated(output.v)
           /\ Count(output.v, ",") = Len(input) - 1
           /\ Count(output.v, " ") = 1

\* C4 as amended: for n int/real/text arguments (no space, comma or newline in
\* a text, and no text that is empty or a lone carriage return) the line ends
\* in exactly one newline, has no trailing separator, and holds one space and
\* n-2 commas when n >= 2, and no separator at all when n = 1: the space
\* follows the first argument and commas separate the others.
C4_SeparatorCounts ==
    (EncodedPlainWords /\ NoEmptyChunk)
        => /\ output.ok
           /\ WellTerminated(output.v)
           /\ Count(output.v, ",") = (IF Len(input) >= 2 THEN Len(input) - 2 ELSE 0)
           /\ Count(output.v, " ") = (IF Len(input) >= 2 THEN 1 ELSE 0)

\* ("APPL", 5.0, 1.2) was encoded as "APPL 5.0,1.2\n".
C4_Witness ==
    /\ input = <<StrV(B_APPL), FloatV(50, 1), FloatV(12, 1)>>
    /\ output = Returned(L_APPL_5_0_1_2)

\* C5: the encoder fails on zero arguments, and a command() or write_line()
\* called with zero arguments never writes a byte to the transport: the call
\* stops at the encoding fault (or at a transport fault before it).
C5_ZeroArgumentsNeverWritten ==
    (call.op \in {"command", "write_line"} /\ call.args = <<>>)
        => /\ ~prepare_line_to_send(call.args).ok
           /\ wire = <<>>
           /\ pc \in {"flush", "read_all", "write_line", "fault"}

\* command() with zero arguments ended with the encoder's IndexError.
C5_Witness ==
    /\ call.op = "command"
    /\ call.args = <<>>
    /\ pc = "fault"
    /\ fault = "IndexError"
    /\ wire = <<>>

\* The parser ran.
Parsed == output # Unset

\* The value the parser returned for token k of n.
ValueAt(out, n, k) == IF n = 1 THEN out ELSE out.l[k]

\* C6: a line with zero tokens (blank, or whitespace only) yields None; a line
\* with one token yields that token's value bare; a line with two or more
\* tokens yields the sequence of the tokens' values in order.
C6_CollapseRule ==
    Parsed =>
        LET toks == IF strip(input) = <<>> THEN <<>> ELSE tokens_of(input)
        IN  /\ Len(toks) = 0 => output = None
            /\ Len(toks) = 1 => output = token_value(toks[1])
            /\ Len(toks) >= 2
                => output = ListV([k \in 1..Len(toks) |-> token_value(toks[k])])

\* C7 (here on the lines that are not blank): the split step retains no empty
\* token, wherever delimiters occur in the line, and so no element of a
\* returned sequence is the empty text.
C7_NoEmptyToken ==
    (Parsed /\ strip(input) # <<>>) =>
        /\ \A k \in 1..Len(tokens_of(input)) : tokens_of(input)[k] # <<>>
        /\ output.t = "list" => \A k \in 1..Len(output.l) : output.l[k] # StrV(<<>>)

\* C8: every token's value is the integer when its sanitised text parses as
\* an integer, else the real when it parses as a real, else the original
\* token text; "1.2.7", "." and "ON" yield their own text.
C8_TokenClassification ==
    Parsed =>
        LET toks == tokens_of(input)
        IN  \A k \in 1..Len(toks) :
                LET v == ValueAt(output, Len(toks), k)
                    cleaned == SelectSeq(toks[k], IsKept)
                IN  /\ v.t \in {"int", "float", "str"}
                    /\ v.t = "int"
                        <=> (cleaned # <<>> /\ \A j \in 1..Len(cleaned) : cleaned[j] \in Digits)
                    /\ v.t = "int" => v.i = DecimalValue(cleaned)
                    /\ v.t = "float"
                        => /\ Count(cleaned, ".") = 1
                           /\ Count(cleaned, ",") = 0
                           /\ Len(cleaned) >= 2
                           /\ v = FloatV(DecimalValue(SelectSeq(cleaned, IsDigit)),
                                         Len(cleaned) - (CHOOSE j \in 1..Len(cleaned) :
                                                            cleaned[j] = "."))
                    /\ v.t = "str"
                        => /\ v.s = toks[k]
                           /\ \/ Count(cleaned, ".") # 1
                              \/ Len(cleaned) = 1
                    /\ toks[k] \in {<<"1", ".", "2", ".", "7">>, <<".">>, B_ON}
                        => v = StrV(toks[k])

\* The malformed number "1.2.7" was parsed and came back as its own text.
C8_Witness ==
    /\ Parsed
    /\ input = <<"1", ".", "2", ".", "7">>
    /\ output = StrV(input)

\* The first line the call read that does not hold the echo marker is reads[i]
\* and is blank.
FirstAcceptedIsBlank(i) ==
    /\ i \in 1..Len(reads)
    /\ IsBlankLine(reads[i])
    /\ \A j \in 1..(i - 1) : Contains(reads[j], Transmitted)

\* C9: when the first non-echo line is blank, command() reads no further
\* line, returns None, and leaves the timeout at its value before the call.
C9_BlankLineEndsTheCall ==
    (call.op = "command" /\ wire # <<>>) =>
        \A i \in 1..Len(reads) :
            FirstAcceptedIsBlank(i)
                => /\ Len(reads) = i
                   /\ pc \in {"finish", "done"}
                   /\ response = <<>>
                   /\ pc = "done" => (result = None /\ timeout = pre_timeout)

\* An echo and then a blank line were read, and the call returned None.
C9_Witness ==
    /\ call.op = "command"
    /\ pc = "done"
    /\ reads = <<Transmitted, L_BLANK>>
    /\ result = None
    /\ timeout = pre_timeout

\* C10: when nothing arrives within the timeout after the command is written,
\* command() returns None without raising, after that single timed-out read.
C10_TimeoutReturnsNone ==
    (call.op = "command" /\ reads # <<>> /\ reads[1] = EmptyBytes)
        => /\ Len(reads) = 1
           /\ pc \in {"finish", "done"}
           /\ fault = "none"
           /\ pc = "done" => result = None

\* The only read of the call timed out, and the call returned None.
C10_Witness ==
    /\ call.op = "command"
    /\ pc = "done"
    /\ reads = <<EmptyBytes>>
    /\ delivered = <<>>
    /\ result = None
    /\ fault = "none"

\* The session holds no echo marker: it was cleared, or never set.
MarkerCleared == echo_of_the_command \in {None, Unset}

\* C11 (here for the calls that returned without a fault): once a command()
\* or write_line() call has finished, the echo marker is cleared.
C11_MarkerClearedAfterEveryCall ==
    (pc = "done" /\ fault = "none") => MarkerCleared

\* C12: command() returns at most one parsed unit: the accumulator never holds
\* more than one element, a line that does not hold the echo marker is the
\* last line the call reads, and the lines that arrive after it stay in the
\* receive buffer.
C12_AtMostOneParsedUnit ==
    (call.op = "command" /\ wire # <<>>) =>
        /\ Len(response) <= 1
        /\ \A i \in 1..Len(reads) :
               ~Contains(reads[i], Transmitted) => i = Len(reads)
        /\ (reads # <<>> /\ reads[Len(reads)] # EmptyBytes /\ response # <<>>)
               => /\ response = <<parse_line(reads[Len(reads)])>>
                  /\ \E n \in 0..Len(in_buffer) :
                        delivered = reads \o SubSeq(in_buffer, 1, n)

\* The reply "5.0,1.2\n" arrived twice: the call read the first, returned
\* [5.0, 1.2], and left the second in the receive buffer.
C12_Witness ==
    /\ call.op = "command"
    /\ pc = "done"
    /\ delivered = <<L_5_0_1_2, L_5_0_1_2>>
    /\ reads = <<L_5_0_1_2>>
    /\ in_buffer = <<L_5_0_1_2>>
    /\ result = ListV(<<FloatV(50, 1), FloatV(12, 1)>>)

\* C14: no retries.  A command() call never writes more than one line; once
\* its write has been made, and whatever the loop then reads (echo lines it
\* discards, a read that times out), the transport has been handed the encoded
\* command line exactly once.
C14_LineWrittenExactlyOnce ==
    call.op = "command" =>
        /\ Len(wire) <= 1
        /\ pc \in {"readline", "finish", "done"}
               => wire = <<prepare_line_to_send(call.args).v>>

\* Two echo lines were discarded, the third read timed out, the call returned
\* None, and the line had been written once.
C14_Witness ==
    /\ call.op = "command"
    /\ pc = "done"
    /\ wire = <<L_APPL_5_0_1_2>>
    /\ reads = <<L_APPL_5_0_1_2, L_APPL_5_0_1_2, EmptyBytes>>
    /\ result = None

\* The lines the call read, without the b"" of a timed-out read.
LinesRead == SelectSeq(reads, LAMBDA line : line # EmptyBytes)

\* C17: in every command() call the receive buffer is drained after the flush
\* and before the line is written, and what the call reads, and so the value
\* it returns, comes from lines that arrived after the drain: never from a
\* line that was in the receive buffer when it was drained.
C17_StaleLinesNeverParsed ==
    call.op = "command" =>
        /\ pc \in {"flush", "read_all"} => (wire = <<>> /\ reads = <<>>)
        /\ pc \in {"write_line", "readline", "finish", "done"}
               => /\ \E n \in 0..Len(delivered) : LinesRead = SubSeq(delivered, 1, n)
                  /\ Len(delivered) - Len(LinesRead) <= Len(in_buffer)
        /\ (pc = "done" /\ result # None)
               => /\ LinesRead # <<>>
                  /\ result = parse_line(delivered[Len(LinesRead)])

\* A line was waiting in the receive buffer when the call drained it; the
\* call then read the one line that arrived afterwards and returned its value.
C17_Witness ==
    /\ call.op = "command"
    /\ pc = "done"
    /\ discarded = 1
    /\ delivered = <<L_MODEL123>>
    /\ reads = delivered
    /\ result = IntV(123)

\* The method sent its SET form and then its QUERY form, and returned a value.
SetterReturned ==
    /\ facade.step = "returned"
    /\ Len(facade.sent) = 2
    /\ result # None

\* C13 (here for the echo of the SET line, which the instrument may deliver
\* at any time): when a setter called with an argument returns, the line its
\* value was parsed from is not the echo of the SET line.
C13_ValueNeverFromTheSetLine ==
    SetterReturned => reads[Len(LinesRead)] # facade.sent[1]

\* An argument was supplied: it is not None.
Supplied(arg) == arg # None

\* C15: a method that returned has sent its SET line exactly when its
\* arguments were supplied (all of them, for apply) and its QUERY line after
\* it: apply(volts, ampers) with both supplied has written ":APPL
\* volts,ampers\n" and then "APPL?\n".
C15_SetSentWhenSupplied ==
    facade.step = "returned" =>
        LET supplied == \A k \in 1..Len(facade.args) : Supplied(facade.args[k])
            SetLine == prepare_line_to_send(set_args(facade.method, facade.args)).v
            QueryLine == prepare_line_to_send(query_args(facade.method)).v
        IN  facade.sent = IF supplied THEN <<SetLine, QueryLine>> ELSE <<QueryLine>>

\* apply_voltage() or apply_current() is over and its command('APPL?') had
\* returned a value (None included).
GetterOver ==
    /\ facade.method \in {"apply_voltage", "apply_current"}
    /\ facade.step \in {"returned", "raised"}
    /\ pc = "done"

\* C18: apply_voltage and apply_current return an element of the reply only
\* when it parsed to a sequence of two or more values; when command('APPL?')
\* gave None or one bare value (an integer, a real or a text), the method
\* ends with an indexing fault and returns nothing.
C18_BareReplyFaults ==
    GetterOver =>
        IF result.t = "list" /\ Len(result.l) >= 2
        THEN /\ facade.step = "returned"
             /\ facade.value
                    = Returned(result.l[IF facade.method = "apply_voltage" THEN 1 ELSE 2])
        ELSE /\ facade.step = "raised"
             /\ facade.value.exc \in {"IndexError", "TypeError"}

\* The arguments with a carriage return put after the text of argument k.
WithCR(args, k) == [args EXCEPT ![k] = StrV(Append(args[k].s, "\r"))]

EndsInCR(s) == s # <<>> /\ s[Len(s)] = "\r"

\* C19 as stated (here on the texts that are not empty): the chunk of an
\* argument is its text less one trailing carriage return, and so encoding
\* the arguments with the text s + CR in place of a text s gives the same
\* result as encoding them with s, for every text s.
C19_SameLineForEveryText ==
    output # Unset =>
        \A k \in 1..Len(input) :
            (input[k].t = "str" /\ input[k].s # <<>>)
                => prepare_line_to_send(WithCR(input, k)) = output

\* C19 as amended: the chunk of an argument is its text less exactly one
\* trailing carriage return, or its text unchanged when it does not end in
\* one.  Encoding with s + CR in place of s gives the same result when s is
\* not empty and does not end in a carriage return.  When s ends in a carriage
\* return the two lines differ (s + CR keeps one of the two).  When s is empty
\* the encoder fails on s, and where it succeeds on the lone carriage return
\* the chunk is empty.
C19_CarriageReturnStripped ==
    output # Unset =>
        /\ (Len(input) = 1 /\ output.ok) =>
               LET text == encode_word(input[1])
               IN  output.v = (IF EndsInCR(text) THEN SubSeq(text, 1, Len(text) - 1)
                               ELSE text) \o <<"\n">>
        /\ \A k \in 1..Len(input) :
               input[k].t = "str" =>
                   LET s == input[k].s
                       withCR == prepare_line_to_send(WithCR(input, k))
                   IN  /\ (s # <<>> /\ ~EndsInCR(s)) => withCR = output
                       /\ (EndsInCR(s) /\ output.ok)
                              => /\ withCR.ok
                                 /\ Len(withCR.v) = Len(output.v) + 1
                       /\ s = <<>> => /\ output = Raised("IndexError")
                                      /\ (withCR.ok /\ Len(input) = 1) => withCR.v = <<"\n">>

\* ("APPL", "ON\r") was encoded as "APPL ON\n", as ("APPL", "ON") is.
C19_Witness ==
    /\ input = <<StrV(B_APPL), StrV(<<"O", "N", "\r">>)>>
    /\ output = Returned(<<"A", "P", "P", "L", " ", "O", "N", "\n">>)
    /\ output = prepare_line_to_send(<<StrV(B_APPL), StrV(B_ON)>>)

RECURSIVE Power(_, _)
Power(x, n) == IF n = 0 THEN 1 ELSE x * Power(x, n - 1)

\* The sum over i of coef[i] * x^(Len(coef) - i), the first coefficient
\* multiplying the highest power.
RECURSIVE PolynomialSum(_, _)
PolynomialSum(coef, x) ==
    IF coef = <<>> THEN 0
    ELSE Head(coef) * Power(x, Len(coef) - 1) + PolynomialSum(Tail(coef), x)

\* C20: polynom(x, name) returns the sum of c[i] * x^(k-i) for the
\* coefficients [c0..ck] stored under the name; for a name that is not in the
\* table it raises KeyError, for an empty coefficient list ValueError; and in
\* every case it leaves the table as it was.
C20_HornerIsThePolynomial ==
    input.op = "polynom" =>
        /\ poly_dict = input.table
        /\ IF input.name \notin DOMAIN input.table
           THEN output = Raised("KeyError")
           ELSE IF input.table[input.name] = <<>>
           THEN output = Raised("ValueError")
           ELSE output = Returned(PolynomialSum(input.table[input.name], input.x))

\* [1.0, -0.5, 0.5] was stored as "cal" and evaluated at 3: 9 - 1.5 + 0.5 = 8,
\* that is 16 halves.
C20_Witness ==
    /\ input.op = "polynom"
    /\ input.name = "cal"
    /\ input.x = 3
    /\ "cal" \in DOMAIN poly_dict
    /\ poly_dict.cal = <<2, -1, 1>>
    /\ output = Returned(16)

\* A command() call is under way.
CommandRunning ==
    /\ call.op = "command"
    /\ pc \in {"flush", "read_all", "write_line", "readline", "finish"}

\* C16: every command() call that is under way ends in the end, by returning
\* or by raising, whatever the instrument sends, given that the queued output
\* leaves the port and every readline() returns within the timeout.
C16_CommandEventuallyReturns == CommandRunning ~> (pc \in {"done", "fault"})

=============================================================================
